---- MODULE Spec2Model ----
(***************************************************************************)
(* Seat assignment (src/seat.py): the seat catalogue, the sequential       *)
(* cohort classification, the greedy interval scheduler assign_students,   *)
(* and the cohort loop of main with its double-seating guard and the       *)
(* assigns ledger.                                                         *)
(*                                                                         *)
(* Times are datetime.time values, written as minutes since midnight.      *)
(* An accommodation text is written as the set of marker phrases that      *)
(* occur in it (case-insensitively), or as a missing value (NaN).          *)
(* A roster row is identified by its position in the roster, which is      *)
(* the DataFrame index label the code carries through every split.         *)
(***************************************************************************)
EXTENDS Integers, Sequences, FiniteSets, TLC

VARIABLES
    roster,            \* df: the rows returned by read_source
    room_preferences,  \* the six room-type switches
    pc,                \* position in main / in assign_students
    splits,            \* cohort name -> rows of that cohort (main step 7)
    seat_pools,        \* pool name -> seat ids (main step 8)
    cohorts,           \* ordered (name, part, pool) entries (main step 9)
    ci,                \* position of the cohort loop in cohorts
    part,              \* df argument of the scheduling call in progress
    pool,              \* seat_pool argument of the scheduling call in progress
    todo,              \* rows the call has still to process, in order
    availability,      \* seat -> next free time (local to one call)
    placed,            \* placed list of the call: (row, Test Room)
    left,              \* left list of the call
    scan,              \* seats read from the shuffled list by the last scan
    seen,              \* student numbers already placed (guard)
    assigned_ids,
    not_assigned_ids,
    assigns,           \* the ledger: seat id -> occupant summary
    writes,            \* every write to assigns, in order: (seat, row, cohort)
    reports,           \* per cohort pass: assigned, not assigned, double seated
    scans,             \* every scan of the run, in order: (row, candidates,
                       \* seats read from the shuffled list, placed or not)
    prior              \* what an earlier run over the same input produced

vars == <<roster, room_preferences, pc, splits, seat_pools, cohorts, ci, part,
          pool, todo, availability, placed, left, scan, seen,
          assigned_ids, not_assigned_ids, assigns, writes, reports, scans,
          prior>>

(***************************************************************************)
(* Bounds of the model.                                                    *)
(***************************************************************************)
\* rows in a roster of a whole run
MaxRows == 2
\* rows in a roster of a whole run with three cohort passes in reach
MaxLongRows == 3
\* rows of a roster when the order of the passes is followed: with every
\* room type on, and with workstations only
MaxWideRows == 2
MaxOrderRows == 3
\* rows in a roster handed to the classifier alone
MaxClassRows == 2
\* persons handed to one scheduling call
MaxPersons == 3
\* datetime.time.min, the value a missing or unparseable time is coerced to
TIME_MIN == 0

Range(s) == {s[i] : i \in 1..Len(s)}

\* t.hour of a datetime.time
Hour(t) == t \div 60

(***************************************************************************)
(* Seat catalogue.  The seat f"WS {n}" is written [name |-> "WS", n |-> n]. *)
(***************************************************************************)
SeatIds ==
    [name : {"WS"}, n : 1..10]
      \cup [name : {"Seat"}, n : 1..30]
      \cup [name : {"Room"}, n : 345..354]
      \cup [name : {"CC Room"}, n : 1..25]
      \cup [name : {"SAS"}, n : 1..12]
      \cup [name : {"SHA 356 Seat"}, n : 1..17]
      \cup [name : {"SHA 357 Seat"}, n : 1..19]
      \cup [name : {"SHA 358 Seat"}, n : 1..31]
      \cup [name : {"SHA 359 Seat"}, n : 1..15]

SeatType(s) ==
    CASE s.name = "WS" -> "ws"
      [] s.name = "Seat" -> "reg"
      [] s.name \in {"Room", "CC Room"} -> "pr"
      [] s.name = "SAS" -> "sas"
      [] OTHER -> "sha"

SeatAdjustable(s) ==
    CASE s.name = "WS" -> s.n = 6
      [] s.name = "Seat" -> s.n \in {13, 15, 30}
      [] s.name = "Room" -> s.n \in {345, 347, 348, 349, 351, 354}
      [] s.name = "CC Room" -> FALSE
      [] s.name = "SAS" -> s.n = 5
      [] s.name = "SHA 358 Seat" -> s.n \in {1, 2, 3}
      [] OTHER -> s.n = 1

SEATS ==
    [s \in SeatIds |-> [type |-> SeatType(s),
                        adjustable |-> SeatAdjustable(s),
                        seat_number |-> s.n]]

\* "for s in SEATS": the keys of the catalogue, all 169 of them
Catalogue == SeatIds

(***************************************************************************)
(* Accommodation texts and the str.contains masks.                         *)
(***************************************************************************)
NaN == [na |-> TRUE, has |-> {}]

Text(phrases) == [na |-> FALSE, has |-> phrases]

\* Series.str.contains(pattern, case=False, na=False), pattern an alternation
StrContains(text, alternatives) ==
    /\ ~text.na
    /\ text.has \cap alternatives # {}

\* read_source: the derived column "Requires Adjustable"
RequiresAdjustable(text) == StrContains(text, {"Height Adjustable"})

(***************************************************************************)
(* main step 7: sequential cohort classification.                          *)
(***************************************************************************)
CohortNames ==
    {"DF1_PR", "DF2_WS", "DF3_HAD", "DF4_SCRIBE", "DF5_MAIN", "DF6_FINAL",
     "DF7_ES", "DF8_SAS", "DF9_CLASSROOMS"}

pr_mask(r) == StrContains(r.text, {"Private Room"})

ws_mask(r) == StrContains(r.text, {"Read and Write", "MS Word", "Kurzweil"})

had_mask(r) == r.adj

scribe_mask(r) == StrContains(r.text, {"Scribe"})

final_mask(r) == StrContains(r.text, {"Final"})

es_mask(r) == Hour(r.end) = 22 /\ r.begin < r.class

sas_mask(r) ==
    StrContains(r.text, {"SAS", "Special", "Individual", "Separate",
                         "Extra Time", "Alternative", "Modified"})

\* remaining[mask]: the rows of remaining the boolean mask selects, in
\* roster order
Keep(remaining, mask) ==
    SelectSeq(remaining, LAMBDA i : mask[i])

\* a classification that never removes the rows a cohort has claimed
DropNothing(remaining, taken) == remaining

\* remaining.drop(taken.index)
Drop(remaining, taken) ==
    SelectSeq(remaining, LAMBDA i : i \notin Range(taken))

Classification(df, prefs) ==
    LET all    == [i \in 1..Len(df) |-> i]
        DF1    == Keep(all, [i \in DOMAIN df |-> pr_mask(df[i])])
        rem1   == Drop(all, DF1)
        DF2    == Keep(rem1, [i \in DOMAIN df |-> ws_mask(df[i])])
        rem2   == Drop(rem1, DF2)
        DF3    == Keep(rem2, [i \in DOMAIN df |-> had_mask(df[i])])
        rem3   == Drop(rem2, DF3)
        DF4    == Keep(rem3, [i \in DOMAIN df |-> scribe_mask(df[i])])
        rem4   == Drop(rem3, DF4)
        DF6    == Keep(rem4, [i \in DOMAIN df |-> final_mask(df[i])])
        rem6   == Drop(rem4, DF6)
        DF7    == Keep(rem6, [i \in DOMAIN df |-> es_mask(df[i])])
        rem7   == Drop(rem6, DF7)
        DF8    == IF prefs.sas_offices THEN Keep(rem7, [i \in DOMAIN df |-> sas_mask(df[i])]) ELSE <<>>
        rem8   == IF prefs.sas_offices THEN Drop(rem7, DF8) ELSE rem7
        DF5    == rem8
        rem5   == Drop(rem8, DF5)
        DF9    == rem5
    IN  [c \in CohortNames |->
            CASE c = "DF1_PR" -> DF1
              [] c = "DF2_WS" -> DF2
              [] c = "DF3_HAD" -> DF3
              [] c = "DF4_SCRIBE" -> DF4
              [] c = "DF5_MAIN" -> DF5
              [] c = "DF6_FINAL" -> DF6
              [] c = "DF7_ES" -> DF7
              [] c = "DF8_SAS" -> DF8
              [] OTHER -> DF9]

NoSplits == [c \in CohortNames |-> <<>>]

(***************************************************************************)
(* assign_students(df, seat_pool).  One step is one iteration of the loop  *)
(* over the students of a group.                                           *)
(***************************************************************************)
\* a processing order that keeps the order of the rows as they arrive
ArrivalOrder(df, rows) == rows

\* group.sort_values("Begin Time"): ascending, equal keys in arrival order
\* (the order numpy's sort gives for the group sizes modelled)
RECURSIVE SortValues(_, _)
SortValues(df, rows) ==
    IF rows = <<>> THEN <<>>
    ELSE LET n      == Len(rows)
             sorted == SortValues(df, SubSeq(rows, 1, n - 1))
             k      == Cardinality({j \in 1..Len(sorted) :
                                      df[sorted[j]].begin <= df[rows[n]].begin})
         IN  SubSeq(sorted, 1, k) \o <<rows[n]>> \o SubSeq(sorted, k + 1, Len(sorted))

\* a processing order that stops after the adjustable-requiring group
AdjustableGroupOnly(df, rows) ==
    SortValues(df, SelectSeq(rows, LAMBDA i : df[i].adj))

\* a processing order that takes the non-requiring group first
NonAdjustableFirst(df, rows) ==
    SortValues(df, SelectSeq(rows, LAMBDA i : ~df[i].adj))
      \o SortValues(df, SelectSeq(rows, LAMBDA i : df[i].adj))

\* a processing order that sorts all persons by begin time as one group
SortedTogether(df, rows) == SortValues(df, rows)

\* for needs_adj in (True, False): group = df[df.adj == needs_adj].sort_values(..)
ProcessingOrder(df, rows) ==
    SortValues(df, SelectSeq(rows, LAMBDA i : df[i].adj))
      \o SortValues(df, SelectSeq(rows, LAMBDA i : ~df[i].adj))

\* a candidate list that ignores the adjustable flag of the seats
ValidAny(needs_adj, seat_pool) == seat_pool

\* valid = [s for s in seat_pool if (not needs_adj or SEATS[s]["adjustable"])]
Valid(needs_adj, seat_pool) ==
    {s \in seat_pool : ~needs_adj \/ SEATS[s].adjustable}

\* an admission test that refuses a begin equal to the next free time
AdmitsStrict(begin, next_free) == begin > next_free

\* stu["Begin Time"] >= availability[seat]
Admits(begin, next_free) == begin >= next_free

\* rng.shuffle(valid): every order of the candidates
RECURSIVE Shuffles(_)
Shuffles(valid) ==
    IF valid = {} THEN {<<>>}
    ELSE UNION {{<<s>> \o q : q \in Shuffles(valid \ {s})} : s \in valid}

\* every list of distinct seats of the set, the empty list included
RECURSIVE Arrangements(_)
Arrangements(seats) ==
    {<<>>} \cup UNION {{<<s>> \o q : q \in Arrangements(seats \ {s})} : s \in seats}

\* rng.shuffle(valid) as far as the scan that follows reads it.  The scan
\* stops at the first seat that admits the person, so the seats the shuffle
\* puts behind that seat are never looked at: a shuffle is written as the
\* seats that do not admit the person which it puts in front, in their
\* order, and the first seat that admits; it is the whole list when no seat
\* admits.
ShuffleAsRead(valid, avail, begin) ==
    LET free == {s \in valid : Admits(begin, avail[s])}
    IN  IF free = {} THEN Shuffles(valid)
        ELSE {p \o <<s>> : p \in Arrangements(valid \ free), s \in free}

\* "for seat in valid: if ...: break": position of the seat taken, 0 for the
\* else branch of the loop
FirstAdmitted(shuffled, avail, begin) ==
    LET hits == {k \in 1..Len(shuffled) : Admits(begin, avail[shuffled[k]])}
    IN  IF hits = {} THEN 0
        ELSE CHOOSE k \in hits : \A h \in hits : k <= h

\* locals of a call in which a seat keeps the next free time an earlier call
\* left on it
EntryKeepsAvailability(df_rows, seat_pool) ==
    /\ part' = df_rows
    /\ pool' = seat_pool
    /\ availability' = [s \in seat_pool |->
                           IF s \in DOMAIN availability THEN availability[s]
                           ELSE TIME_MIN]
    /\ placed' = <<>>
    /\ left' = <<>>
    /\ todo' = ProcessingOrder(roster, df_rows)
    /\ scan' = <<>>

\* lines 213-215: the locals of a call
Entry(df_rows, seat_pool) ==
    /\ part' = df_rows
    /\ pool' = seat_pool
    /\ availability' = [s \in seat_pool |-> TIME_MIN]
    /\ placed' = <<>>
    /\ left' = <<>>
    /\ todo' = ProcessingOrder(roster, df_rows)
    /\ scan' = <<>>

\* the call of assign_students on its own
AssignStudents ==
    /\ pc = "call"
    /\ Entry(part, pool)
    /\ pc' = "sched"
    /\ UNCHANGED <<prior, scans, roster, room_preferences, splits, seat_pools,
                   cohorts, ci, seen, assigned_ids, not_assigned_ids, assigns,
                   writes, reports>>

\* lines 220-231: one student
ScanSeats ==
    /\ pc = "sched"
    /\ todo # <<>>
    /\ LET i     == Head(todo)
           stu   == roster[i]
           valid == Valid(stu.adj, pool)
       IN  \E shuffled \in ShuffleAsRead(valid, availability, stu.begin) :
             LET k == FirstAdmitted(shuffled, availability, stu.begin)
             IN  /\ IF k > 0
                    THEN /\ availability' = [availability EXCEPT ![shuffled[k]] = stu.end]
                         /\ placed' = Append(placed, [row |-> i, seat |-> shuffled[k]])
                         /\ left' = left
                         /\ scan' = SubSeq(shuffled, 1, k)
                    ELSE /\ left' = Append(left, i)
                         /\ scan' = shuffled
                         /\ UNCHANGED <<availability, placed>>
                 /\ scans' = Append(scans, [row |-> i, valid |-> valid,
                                            read |-> scan', placed |-> k > 0])
    /\ todo' = Tail(todo)
    /\ UNCHANGED <<prior, roster, room_preferences, pc, splits, seat_pools,
                   cohorts, ci, part, pool, seen, assigned_ids,
                   not_assigned_ids, assigns, writes, reports>>

\* line 233: the call returns (placed, left)
Return ==
    /\ pc = "sched"
    /\ todo = <<>>
    /\ pc' = "returned"
    /\ UNCHANGED <<prior, scans, roster, room_preferences, splits, seat_pools,
                   cohorts, ci, part, pool, todo, availability, placed, left,
                   scan, seen, assigned_ids, not_assigned_ids, assigns,
                   writes, reports>>

(***************************************************************************)
(* main.                                                                   *)
(***************************************************************************)
\* step 7
Classify ==
    /\ pc = "start"
    /\ splits' = Classification(roster, room_preferences)
    /\ pc' = "classified"
    /\ UNCHANGED <<prior, scans, roster, room_preferences, seat_pools,
                   cohorts, ci, part, pool, todo, availability, placed, left,
                   scan, seen, assigned_ids, not_assigned_ids, assigns,
                   writes, reports>>

OfType(type) == {s \in Catalogue : SEATS[s].type = type}

CCRooms == {s \in Catalogue : s.name = "CC Room"}

\* step 8: seat_pools; a pool whose room type is switched off has no key,
\* except private_rooms, which is always there
SeatPools(prefs) ==
    LET private == (IF prefs.private_rooms THEN OfType("pr") \ CCRooms ELSE {})
                     \cup (IF prefs.campus_corners THEN CCRooms ELSE {})
        keys    == {"private_rooms"}
                     \cup (IF prefs.workstations THEN {"workstations"} ELSE {})
                     \cup (IF prefs.regular_seats THEN {"regular_seats"} ELSE {})
                     \cup (IF prefs.sas_offices THEN {"sas_offices"} ELSE {})
                     \cup (IF prefs.sha_classrooms THEN {"sha_classrooms"} ELSE {})
        base    == [k \in keys |->
                      CASE k = "private_rooms" -> private
                        [] k = "workstations" -> OfType("ws")
                        [] k = "regular_seats" -> OfType("reg")
                        [] k = "sas_offices" -> OfType("sas")
                        [] OTHER -> OfType("sha")]
        sources == UNION {base[k] : k \in keys}
    IN  [k \in keys \cup {"adjustable_seats"} |->
            IF k = "adjustable_seats"
            THEN {s \in sources : SEATS[s].adjustable}
            ELSE base[k]]

\* the order in which the classifier fills the cohorts
ClassifierOrder ==
    <<"DF1_PR", "DF2_WS", "DF3_HAD", "DF4_SCRIBE", "DF6_FINAL", "DF7_ES",
      "DF8_SAS", "DF5_MAIN", "DF9_CLASSROOMS">>

\* step 9: the order in which the cohorts dict is filled, which is the order
\* the loop of step 10 runs in
CohortOrder ==
    <<"DF1_PR", "DF3_HAD", "DF4_SCRIBE", "DF2_WS", "DF6_FINAL", "DF7_ES",
      "DF5_MAIN", "DF8_SAS", "DF9_CLASSROOMS">>

\* step 9: the pool a cohort is scheduled on
PoolOf(name) ==
    CASE name \in {"DF1_PR", "DF4_SCRIBE"} -> "private_rooms"
      [] name = "DF3_HAD" -> "adjustable_seats"
      [] name = "DF2_WS" -> "workstations"
      [] name = "DF5_MAIN" -> "regular_seats"
      [] name = "DF8_SAS" -> "sas_offices"
      [] OTHER -> "sha_classrooms"

\* step 9: the condition under which a cohort is scheduled at all
Scheduled(name, prefs, pools, split) ==
    /\ Len(split[name]) > 0
    /\ CASE name \in {"DF1_PR", "DF4_SCRIBE"} -> prefs.private_rooms
         [] name = "DF3_HAD" -> Cardinality(pools["adjustable_seats"]) > 0
         [] name = "DF2_WS" -> prefs.workstations
         [] name = "DF5_MAIN" -> prefs.regular_seats
         [] name = "DF8_SAS" -> prefs.sas_offices
         [] OTHER -> prefs.sha_classrooms

Cohorts(prefs, pools, split) ==
    LET names == SelectSeq(CohortOrder,
                           LAMBDA c : Scheduled(c, prefs, pools, split))
    IN  [k \in 1..Len(names) |->
            [name |-> names[k], part |-> split[names[k]],
             pool |-> pools[PoolOf(names[k])]]]

\* steps 8 and 9
BuildCohorts ==
    /\ pc = "classified"
    /\ seat_pools' = SeatPools(room_preferences)
    /\ cohorts' = Cohorts(room_preferences, seat_pools', splits)
    /\ ci' = 1
    /\ pc' = "loop"
    /\ UNCHANGED <<prior, scans, roster, room_preferences, splits, part, pool,
                   todo, availability, placed, left, scan, seen, assigned_ids,
                   not_assigned_ids, assigns, writes, reports>>

\* step 10, lines 571-573: the next cohort is handed to assign_students
ProcessCohort ==
    /\ pc = "loop"
    /\ ci <= Len(cohorts)
    /\ Entry(cohorts[ci].part, cohorts[ci].pool)
    /\ pc' = "sched"
    /\ UNCHANGED <<prior, scans, roster, room_preferences, splits, seat_pools,
                   cohorts, ci, seen, assigned_ids, not_assigned_ids, assigns,
                   writes, reports>>

StudentNumbers(df, rows) == {df[rows[k]].sn : k \in 1..Len(rows)}

\* lines 601-608: the rows of assigned are written to assigns one after the
\* other, a later row replacing an earlier one on the same seat
RECURSIVE Record(_, _, _)
Record(ledger, df, assigned) ==
    IF assigned = <<>> THEN ledger
    ELSE LET p     == Head(assigned)
             entry == [student_number |-> df[p.row].sn,
                       requiresAdjust |-> df[p.row].adj]
         IN  Record([s \in DOMAIN ledger \cup {p.seat} |->
                        IF s = p.seat THEN entry ELSE ledger[s]],
                    df, Tail(assigned))

\* lines 575-608: the guard, the id sets and the ledger, after the call
\* has returned
Guard ==
    /\ pc = "sched"
    /\ todo = <<>>
    /\ LET assigned_unique == SelectSeq(placed, LAMBDA p : roster[p.row].sn \notin seen)
           double_seated   == SelectSeq(placed, LAMBDA p : roster[p.row].sn \in seen)
           not_assigned    == left \o [k \in 1..Len(double_seated) |-> double_seated[k].row]
           rows_unique     == [k \in 1..Len(assigned_unique) |-> assigned_unique[k].row]
       IN  /\ seen' = seen \cup StudentNumbers(roster, rows_unique)
           /\ assigned_ids' = assigned_ids \cup StudentNumbers(roster, rows_unique)
           /\ not_assigned_ids' = not_assigned_ids \cup StudentNumbers(roster, not_assigned)
           /\ assigns' = Record(assigns, roster, assigned_unique)
           /\ writes' = writes \o [k \in 1..Len(assigned_unique) |->
                                     [seat |-> assigned_unique[k].seat,
                                      row |-> assigned_unique[k].row,
                                      cohort |-> cohorts[ci].name]]
           /\ reports' = Append(reports,
                                [name |-> cohorts[ci].name,
                                 assigned |-> assigned_unique,
                                 not_assigned |-> not_assigned,
                                 double_seated |-> double_seated])
    /\ ci' = ci + 1
    /\ pc' = "loop"
    /\ UNCHANGED <<prior, scans, roster, room_preferences, splits, seat_pools,
                   cohorts, part, pool, todo, availability, placed, left,
                   scan>>

\* steps 10 to 11: the loop is over, assigns is written out
Finish ==
    /\ pc = "loop"
    /\ ci > Len(cohorts)
    /\ pc' = "done"
    /\ UNCHANGED <<prior, scans, roster, room_preferences, splits, seat_pools,
                   cohorts, ci, part, pool, todo, availability, placed, left,
                   scan, seen, assigned_ids, not_assigned_ids, assigns,
                   writes, reports>>

(***************************************************************************)
(* Initial states and specifications.                                      *)
(***************************************************************************)
\* read_source: a roster row with its derived column
Row(sn, slot, text) ==
    [sn |-> sn, begin |-> slot.begin, end |-> slot.end, class |-> slot.class,
     text |-> text, adj |-> RequiresAdjustable(text)]

Slot(begin, end, class) == [begin |-> begin, end |-> end, class |-> class]

AllOn ==
    [private_rooms |-> TRUE, campus_corners |-> TRUE, workstations |-> TRUE,
     regular_seats |-> TRUE, sas_offices |-> TRUE, sha_classrooms |-> TRUE]

NothingYet ==
    /\ splits = NoSplits
    /\ seat_pools = <<>>
    /\ cohorts = <<>>
    /\ ci = 0
    /\ todo = <<>>
    /\ availability = <<>>
    /\ placed = <<>>
    /\ left = <<>>
    /\ scan = <<>>
    /\ seen = {}
    /\ assigned_ids = {}
    /\ not_assigned_ids = {}
    /\ assigns = <<>>
    /\ writes = <<>>
    /\ reports = <<>>
    /\ scans = <<>>
    /\ prior = <<>>

\* --- a whole run ---------------------------------------------------------
\* 09:00-10:00, 10:00-11:00, and an evening sitting 09:00-22:00 before a
\* 10:00 class
SlotA == Slot(540, 600, 0)

SlotB == Slot(600, 660, 0)

SlotE == Slot(540, 1320, 600)

\* the kinds of rows of a run: (slot, accommodation text)
RunShapes ==
    {<<SlotA, Text({"Private Room"})>>,
     <<SlotB, Text({"Private Room"})>>,
     <<SlotA, Text({"Scribe"})>>,
     <<SlotA, Text({"Kurzweil"})>>,
     <<SlotA, Text({"Kurzweil", "Height Adjustable"})>>,
     <<SlotA, Text({"Height Adjustable"})>>,
     <<SlotA, Text({"Final"})>>,
     <<SlotE, Text({})>>,
     <<SlotA, Text({"Extra Time"})>>,
     <<SlotA, Text({})>>}

\* Student numbers are used only for equality, so a roster numbers its
\* students in order of first appearance.
FirstAppearance(sns) ==
    \A i \in DOMAIN sns :
        \/ sns[i] = 1
        \/ \E j \in 1..(i - 1) : sns[j] >= sns[i] - 1

\* the rosters of at most max rows
RunRoster(df, max) ==
    \E n \in 0..max :
        \E shapes \in [1..n -> RunShapes], sns \in [1..n -> 1..n] :
            /\ FirstAppearance(sns)
            /\ df = [i \in 1..n |-> Row(sns[i], shapes[i][1], shapes[i][2])]

WorkstationsOnly ==
    [private_rooms |-> FALSE, campus_corners |-> FALSE, workstations |-> TRUE,
     regular_seats |-> FALSE, sas_offices |-> FALSE, sha_classrooms |-> FALSE]

RunPreferences == {AllOn, WorkstationsOnly}

Init ==
    /\ RunRoster(roster, MaxRows)
    /\ room_preferences \in RunPreferences
    /\ pc = "start"
    /\ part = <<>>
    /\ pool = {}
    /\ NothingYet

Next ==
    \/ Classify
    \/ BuildCohorts
    \/ ProcessCohort
    \/ ScanSeats
    \/ Guard
    \/ Finish

Spec == Init /\ [][Next]_vars

\* --- a whole run over a longer roster -------------------------------------
LongInit ==
    /\ RunRoster(roster, MaxLongRows)
    /\ room_preferences = WorkstationsOnly
    /\ pc = "start"
    /\ part = <<>>
    /\ pool = {}
    /\ NothingYet

LongSpec == LongInit /\ [][Next]_vars

\* --- a whole run, for the order of the cohort passes -----------------------
\* With every room type on, a roster of MaxWideRows rows: its rows fall in
\* any two of the eight scheduled cohorts, in either roster order.  With
\* workstations only, where the height adjustable and the workstation
\* cohorts share 'WS 6', a roster of MaxOrderRows rows: a student can be left
\* in the first pass and placed in the second.
OrderInit ==
    /\ \/ /\ room_preferences = AllOn
          /\ RunRoster(roster, MaxWideRows)
       \/ /\ room_preferences = WorkstationsOnly
          /\ RunRoster(roster, MaxOrderRows)
    /\ pc = "start"
    /\ part = <<>>
    /\ pool = {}
    /\ NothingYet

OrderSpec == OrderInit /\ [][Next]_vars

\* --- the classifier alone ------------------------------------------------
ClassifySlots == {SlotA, SlotE, Slot(600, 1320, 540)}

ClassifyTexts ==
    {NaN, Text({})}
      \cup {Text({p}) : p \in {"Private Room", "Read and Write", "Kurzweil",
                                "Height Adjustable", "Scribe", "Final", "SAS",
                                "Extra Time", "Quiet Space"}}
      \cup {Text({"Private Room", "Height Adjustable"}),
            Text({"Kurzweil", "Height Adjustable"}),
            Text({"Height Adjustable", "Scribe"}),
            Text({"Scribe", "Final"}),
            Text({"Final", "Special"})}

\* read_source takes the .str accessor of the text column, which a column
\* of missing values only does not have: such a roster gets no further
ClassifyRoster(df) ==
    \E n \in 0..MaxClassRows :
        \E slots \in [1..n -> ClassifySlots], texts \in [1..n -> ClassifyTexts] :
            /\ n = 0 \/ \E i \in 1..n : ~texts[i].na
            /\ df = [i \in 1..n |-> Row(i, slots[i], texts[i])]

ClassifyInit ==
    /\ ClassifyRoster(roster)
    /\ room_preferences \in {AllOn, [AllOn EXCEPT !.sas_offices = FALSE]}
    /\ pc = "start"
    /\ part = <<>>
    /\ pool = {}
    /\ NothingYet

ClassifyNext == Classify

ClassifySpec == ClassifyInit /\ [][ClassifyNext]_vars

\* --- one scheduling call -------------------------------------------------
\* begin and end times are independent: an end before the begin, or the
\* missing-time value, is a roster the call is handed
SchedBegins == {540, 600}

SchedEnds == {TIME_MIN, 600, 660}

SchedTexts == {Text({}), Text({"Height Adjustable"})}

\* Seat 13 and Seat 15 are adjustable, Seat 1 is not
Seat1 == [name |-> "Seat", n |-> 1]

Seat13 == [name |-> "Seat", n |-> 13]

Seat15 == [name |-> "Seat", n |-> 15]

SchedPools ==
    {{}, {Seat1}, {Seat13}, {Seat1, Seat13}, {Seat13, Seat15}}

SchedRoster(df) ==
    \E n \in 0..MaxPersons :
        \E begins \in [1..n -> SchedBegins], ends \in [1..n -> SchedEnds],
           texts \in [1..n -> SchedTexts] :
            df = [i \in 1..n |-> Row(i, Slot(begins[i], ends[i], TIME_MIN), texts[i])]

SchedInit ==
    /\ SchedRoster(roster)
    /\ room_preferences = AllOn
    /\ pc = "call"
    /\ part = [i \in 1..Len(roster) |-> i]
    /\ pool \in SchedPools
    /\ NothingYet

SchedNext ==
    \/ AssignStudents
    \/ ScanSeats
    \/ Return

SchedSpec == SchedInit /\ [][SchedNext]_vars

\* --- two runs of main over the same roster and preferences ----------------
\* rows in a roster that is run twice
MaxTwinRows == 3

\* the adjustable seats of the enabled pools are WS 6 and SAS 5
WorkstationsAndSas ==
    [private_rooms |-> FALSE, campus_corners |-> FALSE, workstations |-> TRUE,
     regular_seats |-> FALSE, sas_offices |-> TRUE, sha_classrooms |-> FALSE]

TwinShapes ==
    {<<SlotA, Text({"Height Adjustable"})>>,
     <<SlotB, Text({"Height Adjustable"})>>,
     <<SlotA, Text({"Kurzweil", "Height Adjustable"})>>}

TwinRoster(df) ==
    \E n \in 0..MaxTwinRows :
        \E shapes \in [1..n -> TwinShapes], sns \in [1..n -> 1..n] :
            /\ FirstAppearance(sns)
            /\ df = [i \in 1..n |-> Row(sns[i], shapes[i][1], shapes[i][2])]

TwinInit ==
    /\ TwinRoster(roster)
    /\ room_preferences = WorkstationsAndSas
    /\ pc = "start"
    /\ part = <<>>
    /\ pool = {}
    /\ NothingYet

\* main is run again on the same roster with the same preferences: what the
\* first run produced is kept for comparison, and main starts from its
\* initialisations.  The locals of assign_students are left as the last
\* call left them: every call sets them itself.
Rerun ==
    /\ pc = "done"
    /\ prior = <<>>
    /\ prior' = <<[scans |-> scans, reports |-> reports, assigns |-> assigns]>>
    /\ pc' = "start"
    /\ splits' = NoSplits
    /\ seat_pools' = <<>>
    /\ cohorts' = <<>>
    /\ ci' = 0
    /\ seen' = {}
    /\ assigned_ids' = {}
    /\ not_assigned_ids' = {}
    /\ assigns' = <<>>
    /\ writes' = <<>>
    /\ reports' = <<>>
    /\ scans' = <<>>
    /\ UNCHANGED <<roster, room_preferences, part, pool, todo, availability,
                   placed, left, scan>>

TwinNext ==
    \/ Next
    \/ Rerun

TwinSpec == TwinInit /\ [][TwinNext]_vars

(***************************************************************************)
(* Properties.                                                             *)
(***************************************************************************)
Max2(a, b) == IF a >= b THEN a ELSE b

Min2(a, b) == IF a <= b THEN a ELSE b

\* the [begin, end) intervals of two rows share a moment
Overlap(r1, r2) == Max2(r1.begin, r2.begin) < Min2(r1.end, r2.end)

\* the placements the guard accepted: (pass, position in its assigned list)
Accepted ==
    UNION {{<<k, a>> : a \in 1..Len(reports[k].assigned)} : k \in 1..Len(reports)}

AcceptedAt(x) == reports[x[1]].assigned[x[2]]

Position(order, name) == CHOOSE k \in 1..Len(order) : order[k] = name

\* C1: at the end of a run, two accepted placements on the same seat, from
\* the same cohort pass or from two passes, never have overlapping
\* [begin, end) intervals.
NoDoubleBooking ==
    pc = "done" =>
        \A x, y \in Accepted :
            (x # y /\ AcceptedAt(x).seat = AcceptedAt(y).seat)
                => ~Overlap(roster[AcceptedAt(x).row], roster[AcceptedAt(y).row])

\* C2: at the end of a run, no student number is the recorded occupant of two
\* different seats of the ledger.
NoDoubleSeating ==
    pc = "done" =>
        \A s1, s2 \in DOMAIN assigns :
            s1 # s2 => assigns[s1].student_number # assigns[s2].student_number

\* C3: a person who requires an adjustable seat is placed only on a seat whose
\* catalogue entry is adjustable.
AdjustableRespected ==
    \A k \in 1..Len(placed) :
        roster[placed[k].row].adj => SeatAdjustable(placed[k].seat)

AdjustableRespectedWitness ==
    /\ pc = "returned"
    /\ \E k \in 1..Len(placed) : roster[placed[k].row].adj
    /\ \E s \in pool : ~SeatAdjustable(s)

Occurrences(c, i) == Cardinality({k \in 1..Len(splits[c]) : splits[c][k] = i})

\* C4: after classification every roster row is in exactly one cohort, once,
\* and the cohorts hold roster rows only, for both settings of sas_offices.
PartitionTotality ==
    pc = "classified" =>
        /\ \A i \in 1..Len(roster) :
               \E c \in CohortNames :
                   /\ Occurrences(c, i) = 1
                   /\ \A d \in CohortNames \ {c} : Occurrences(d, i) = 0
        /\ \A c \in CohortNames : Range(splits[c]) \subseteq 1..Len(roster)

PartitionTotalityWitness ==
    /\ pc = "classified"
    /\ Len(roster) = 2
    /\ ~room_preferences.sas_offices
    /\ pr_mask(roster[1]) /\ had_mask(roster[1])
    /\ sas_mask(roster[2])

\* C5: no seat is written to the ledger twice in a run.
WrittenOnce ==
    \A i, j \in 1..Len(writes) : i # j => writes[i].seat # writes[j].seat

\* C6: after a cohort pass, every person the pass placed whose student number
\* was already seen is in the not-assigned list of the pass, is not written to
\* the ledger, and the ledger still holds the entry an earlier pass recorded
\* for that student number.
EarlierPlacementStands ==
    Len(reports) > 0 =>
        LET k == Len(reports)
        IN  \A d \in Range(reports[k].double_seated) :
                /\ d.row \in Range(reports[k].not_assigned)
                /\ \A w \in Range(writes) : w.row # d.row
                /\ \A a \in Range(reports[k].assigned) : a.row # d.row
                /\ \E j \in 1..(k - 1) : \E a \in Range(reports[j].assigned) :
                       /\ roster[a.row].sn = roster[d.row].sn
                       /\ a.seat \in DOMAIN assigns
                       /\ assigns[a.seat] = [student_number |-> roster[a.row].sn,
                                             requiresAdjust |-> roster[a.row].adj]

\* one scan of assign_students has just been made in this step
Scanned == pc = "sched" /\ todo # <<>> /\ todo' = Tail(todo)

\* C7 (step): the person processed is placed exactly when a candidate seat
\* has a next free time at or before the person's begin time; the seat taken
\* is the first such seat of the shuffled order; otherwise the person joins
\* the unplaced list and the call goes on.
FirstFitStep ==
    Scanned =>
        LET i     == Head(todo)
            cands == {s \in pool : roster[i].adj => SeatAdjustable(s)}
            free  == {s \in cands : availability[s] <= roster[i].begin}
            n     == Len(scan')
        IN  IF free # {}
            THEN /\ n > 0
                 /\ scan'[n] \in free
                 /\ \A k \in 1..(n - 1) : scan'[k] \in cands \ free
                 /\ placed' = Append(placed, [row |-> i, seat |-> scan'[n]])
                 /\ left' = left
            ELSE /\ placed' = placed
                 /\ left' = Append(left, i)
                 /\ pc' = "sched"

BackToBack ==
    /\ Cardinality(pool) = 1
    /\ Len(roster) = 2
    /\ ~roster[1].adj /\ roster[1].begin = 540 /\ roster[1].end = 600
    /\ ~roster[2].adj /\ roster[2].begin = 600 /\ roster[2].end = 660

\* C7 (scenario): pool {A}, P1 09:00-10:00 and P2 10:00-11:00: both on A.
BackToBackBothPlaced ==
    (pc = "returned" /\ BackToBack) =>
        /\ left = <<>>
        /\ Len(placed) = 2
        /\ \A k \in 1..2 : placed[k].row = k /\ placed[k].seat \in pool

\* C7: boundary-inclusive first fit, in every step of a call and in the
\* back-to-back scenario.
BoundaryInclusiveFirstFit == [][FirstFitStep]_vars /\ []BackToBackBothPlaced

BoundaryInclusiveFirstFitWitness ==
    /\ pc = "returned"
    /\ BackToBack
    /\ Len(placed) = 2
    /\ placed[1].seat = placed[2].seat

\* seat s is occupied at the begin time of row e by an adjustable-requiring
\* person placed on it who begins no later than e
OccupiedAtBegin(s, e) ==
    \E k \in 1..Len(placed) :
        /\ placed[k].seat = s
        /\ roster[placed[k].row].adj
        /\ roster[placed[k].row].begin <= roster[e].begin
        /\ roster[e].begin < roster[placed[k].row].end

CouldFit(e, s) == s \in pool /\ SeatAdjustable(s) /\ ~OccupiedAtBegin(s, e)

SingleAdjustableSeat ==
    /\ Cardinality({s \in pool : SeatAdjustable(s)}) = 1
    /\ Len(roster) = 2
    /\ roster[1].adj /\ roster[2].adj
    /\ Overlap(roster[1], roster[2])

\* C8: with one adjustable seat and two adjustable-requiring persons whose
\* windows overlap, exactly one is placed, on that seat, and it is the one
\* who begins first; and no adjustable-requiring person takes a seat S while
\* an adjustable-requiring person who begins earlier and could fit S is
\* unplaced.
EarlierBeginFirst ==
    pc = "returned" =>
        /\ SingleAdjustableSeat =>
               /\ Len(placed) = 1
               /\ Len(left) = 1
               /\ SeatAdjustable(placed[1].seat)
               /\ roster[placed[1].row].begin <= roster[left[1]].begin
        /\ \A k \in 1..Len(placed) : \A e \in Range(left) :
               (/\ roster[placed[k].row].adj
                /\ roster[e].adj
                /\ roster[e].begin < roster[placed[k].row].begin)
                   => ~CouldFit(e, placed[k].seat)

EarlierBeginFirstWitness ==
    /\ pc = "returned"
    /\ SingleAdjustableSeat
    /\ roster[2].begin < roster[1].begin
    /\ Len(placed) = 1
    /\ placed[1].row = 2
    /\ left = <<1>>

\* the order of the cohort loop, written out
LoopOrder ==
    <<"DF1_PR", "DF3_HAD", "DF4_SCRIBE", "DF2_WS", "DF6_FINAL", "DF7_ES",
      "DF5_MAIN", "DF8_SAS", "DF9_CLASSROOMS">>

\* the order of the classifier's rules, written out
RuleOrder ==
    <<"DF1_PR", "DF2_WS", "DF3_HAD", "DF4_SCRIBE", "DF6_FINAL", "DF7_ES",
      "DF8_SAS", "DF5_MAIN", "DF9_CLASSROOMS">>

\* the passes run in the given order, a student number is accepted in one
\* pass only, and a placement the guard discards belongs to a student number
\* accepted in a pass earlier in that order
RunsInOrder(order) ==
    /\ \A j, k \in 1..Len(reports) :
           j < k => Position(order, reports[j].name) < Position(order, reports[k].name)
    /\ \A j, k \in 1..Len(reports) :
           j < k => \A a \in Range(reports[j].assigned) :
                        \A b \in Range(reports[k].assigned) :
                            roster[a.row].sn # roster[b.row].sn
    /\ \A k \in 1..Len(reports) : \A d \in Range(reports[k].double_seated) :
           \E j \in 1..Len(reports) : \E a \in Range(reports[j].assigned) :
               /\ roster[a.row].sn = roster[d.row].sn
               /\ Position(order, reports[j].name) < Position(order, reports[k].name)

\* the student numbers of the rows a pass was handed: every row of the part
\* is reported as assigned or as not assigned
OccursIn(report) ==
    {roster[a.row].sn : a \in Range(report.assigned)}
        \cup {roster[i].sn : i \in Range(report.not_assigned)}

\* the passes run in the given order, and a student number that occurs in
\* two passes keeps no placement from the later of the two
KeptFromFirstCohort(order) ==
    /\ \A j, k \in 1..Len(reports) :
           j < k => Position(order, reports[j].name) < Position(order, reports[k].name)
    /\ \A j, k \in 1..Len(reports) :
           Position(order, reports[j].name) < Position(order, reports[k].name)
               => \A b \in Range(reports[k].assigned) :
                      roster[b.row].sn \notin OccursIn(reports[j])

\* C9 as stated: the cohort passes run in the classifier's rule order, and
\* when one student number occurs in two cohorts the placement that is kept
\* is the one from the cohort that comes first in that order.
PassesInRuleOrder == KeptFromFirstCohort(RuleOrder)

\* The statement of C9 with the order alone amended: the passes run in the
\* loop's order, and a student number that occurs in two cohorts keeps the
\* placement of the first.  It fails when the first cohort leaves the student
\* without a seat and the second places the student: with workstations only,
\* two height adjustable rows at 09:00 compete for 'WS 6', the second is
\* left, and a workstation software row of the same student number is
\* placed and kept.
LoopOrderFirstCohortKeeps == KeptFromFirstCohort(LoopOrder)

\* C9 amended: the cohort passes run in the order private room, height
\* adjustable, scribe, workstation, final, evening, catch-all, SAS, and when
\* one student number occurs in two cohorts the placement that is kept is
\* the one from the first cohort, in this order, in which the scheduler
\* placed the student.
PassesInLoopOrder == RunsInOrder(LoopOrder)

\* every room type on: the catch-all pass has placed a student, the SAS
\* pass after it has placed the same student number again, and the guard
\* has discarded the second placement
PassesInLoopOrderWitness ==
    /\ pc = "done"
    /\ room_preferences = AllOn
    /\ Len(reports) = 2
    /\ reports[1].name = "DF5_MAIN"
    /\ reports[2].name = "DF8_SAS"
    /\ Len(reports[1].assigned) = 1
    /\ Len(reports[2].double_seated) = 1
    /\ reports[2].assigned = <<>>

Matches(rule, r) ==
    CASE rule = "DF1_PR" -> pr_mask(r)
      [] rule = "DF2_WS" -> ws_mask(r)
      [] rule = "DF3_HAD" -> had_mask(r)
      [] rule = "DF4_SCRIBE" -> scribe_mask(r)
      [] rule = "DF6_FINAL" -> final_mask(r)
      [] rule = "DF7_ES" -> es_mask(r)
      [] rule = "DF8_SAS" -> sas_mask(r)
      [] OTHER -> FALSE

\* the cohort of the first rule of the list that the row matches, the
\* catch-all cohort when it matches none
FirstMatch(rules, r) ==
    LET hits == {k \in 1..Len(rules) : Matches(rules[k], r)}
    IN  IF hits = {} THEN "DF5_MAIN"
        ELSE rules[CHOOSE k \in hits : \A h \in hits : k <= h]

AllRules ==
    <<"DF1_PR", "DF2_WS", "DF3_HAD", "DF4_SCRIBE", "DF6_FINAL", "DF7_ES", "DF8_SAS">>

RulesInEffect(prefs) ==
    IF prefs.sas_offices THEN AllRules ELSE SubSeq(AllRules, 1, 6)

InCohortOfFirstMatch(rules) ==
    pc = "classified" =>
        \A i \in 1..Len(roster) : \A c \in CohortNames :
            i \in Range(splits[c]) <=> c = FirstMatch(rules, roster[i])

\* C10 as stated: every row is in the cohort of the first of the seven rules
\* it matches, and in the catch-all cohort when it matches none.
FirstRuleWins == InCohortOfFirstMatch(AllRules)

\* C10 amended: the same, the SAS rule counting only when sas_offices is on.
FirstRuleInEffectWins == InCohortOfFirstMatch(RulesInEffect(room_preferences))

FirstRuleInEffectWinsWitness ==
    /\ pc = "classified"
    /\ Len(roster) = 2
    /\ pr_mask(roster[1]) /\ had_mask(roster[1])
    /\ 1 \in Range(splits["DF1_PR"])
    /\ ~room_preferences.sas_offices
    /\ sas_mask(roster[2])
    /\ 2 \in Range(splits["DF5_MAIN"])

IsPrefix(p, q) == Len(p) <= Len(q) /\ p = SubSeq(q, 1, Len(p))

\* the seats some scan of either run has read
SeatsRead ==
    UNION {Range(h.read) : h \in Range(scans) \cup Range(prior[1].scans)}

\* every scan of the history read its candidates in the order perm puts them
DrawnFrom(perm, history) ==
    \A k \in 1..Len(history) :
        IsPrefix(history[k].read,
                 SelectSeq(perm, LAMBDA s : s \in history[k].valid))

\* one permutation of the seats was the shuffle of every scan of both runs;
\* the seats no scan has read stand behind the others in it, in any order
FixedShuffle ==
    \E perm \in Shuffles(SeatsRead) :
        DrawnFrom(perm, scans) /\ DrawnFrom(perm, prior[1].scans)

\* C11: when a second run over the same roster and preferences has ended and
\* every scan of both runs shuffled its candidates into the same permutation,
\* the two runs made the same scans with the same outcome, reported the same
\* assigned and not-assigned lists for every cohort, and built the same
\* ledger.
SameRunSameResult ==
    (pc = "done" /\ Len(prior) = 1 /\ FixedShuffle) =>
        /\ scans = prior[1].scans
        /\ reports = prior[1].reports
        /\ assigns = prior[1].assigns

SameRunSameResultWitness ==
    /\ pc = "done"
    /\ Len(prior) = 1
    /\ FixedShuffle
    /\ Len(scans) >= 2
    /\ \E k \in 1..Len(scans) :
           scans[k].placed /\ Cardinality(scans[k].valid) >= 2
    /\ \E k \in 1..Len(scans) : ~scans[k].placed
    /\ DOMAIN assigns # {}

\* C12: within one scheduling call every adjustable-requiring person is
\* scanned before any non-requiring person, the persons of each of the two
\* groups are scanned in ascending begin time, and when an
\* adjustable-requiring person is left unplaced no non-requiring person has
\* been placed yet.
AdjustableGroupFirst ==
    /\ \A j, k \in 1..Len(scans) :
           j < k =>
               /\ roster[scans[k].row].adj => roster[scans[j].row].adj
               /\ (roster[scans[j].row].adj = roster[scans[k].row].adj)
                      => roster[scans[j].row].begin <= roster[scans[k].row].begin
    /\ \A i \in Range(todo) : \A k \in 1..Len(scans) :
           roster[i].adj => roster[scans[k].row].adj
    /\ \A k \in 1..Len(scans) :
           (roster[scans[k].row].adj /\ ~scans[k].placed)
               => \A j \in 1..(k - 1) :
                      scans[j].placed => roster[scans[j].row].adj

AdjustableGroupFirstWitness ==
    /\ pc = "returned"
    /\ Len(roster) = 3
    /\ ~roster[1].adj
    /\ roster[2].adj
    /\ \E e \in Range(left) : roster[e].adj
    /\ \E k \in 1..Len(placed) :
           ~roster[placed[k].row].adj /\ SeatAdjustable(placed[k].seat)

\* one step of a call: entering it, or scanning the seats for one person
NextFreeStep ==
    /\ (pc = "call" /\ pc' = "sched")
           => \A s \in pool' : availability'[s] = TIME_MIN
    /\ (pc = "sched" /\ pc' = "sched")
           => \A s \in pool : availability'[s] >= availability[s]

\* C13: within one scheduling call every seat's next free time starts at the
\* minimum time and no selection lowers it, whatever the begin and end times
\* of the persons are (an end before the begin, a missing end included).
NextFreeNeverDecreases == [][NextFreeStep]_vars

DistinctStudentNumbers ==
    \A i, j \in 1..Len(roster) : i # j => roster[i].sn # roster[j].sn

\* C14: at the end of a run over a roster with distinct student numbers,
\* every student number of the roster is in exactly one of assigned_ids and
\* not_assigned_ids, and the two totals add up to the roster size, whatever
\* the room preferences are.
AllAccountedFor ==
    (pc = "done" /\ DistinctStudentNumbers) =>
        /\ \A i \in 1..Len(roster) :
               (roster[i].sn \in assigned_ids) # (roster[i].sn \in not_assigned_ids)
        /\ Cardinality(assigned_ids) + Cardinality(not_assigned_ids) = Len(roster)

\* how often row i is in the placed list and in the left list
TimesPlaced(i) == Cardinality({k \in 1..Len(placed) : placed[k].row = i})

TimesLeft(i) == Cardinality({k \in 1..Len(left) : left[k] = i})

\* C15: the placed and left lists a scheduling call returns partition its
\* input: every input row is once in placed or once in left and not in both,
\* no other row is in either list, and every placed row carries a seat of the
\* pool the call was given.
ReturnPartitionsInput ==
    pc = "returned" =>
        /\ \A i \in Range(part) : TimesPlaced(i) + TimesLeft(i) = 1
        /\ \A k \in 1..Len(placed) : placed[k].row \in Range(part)
        /\ Range(left) \subseteq Range(part)
        /\ \A k \in 1..Len(placed) : placed[k].seat \in pool

ReturnPartitionsInputWitness ==
    /\ pc = "returned"
    /\ Len(part) = 3
    /\ Cardinality(pool) = 2
    /\ Len(placed) = 2
    /\ Len(left) = 1
    /\ \E i \in Range(part) : roster[i].adj
    /\ \E i \in Range(part) : ~roster[i].adj

\* a step of a call keeps every placement made and every person left
PlacementsStand ==
    pc = "sched" => IsPrefix(placed, placed') /\ IsPrefix(left, left')

WellFormed == \A i \in 1..Len(roster) : roster[i].begin < roster[i].end

\* every person of the call can be given a seat of the pool, adjustable where
\* required, no two persons with overlapping times on one seat
PerfectAssignmentExists ==
    \E f \in [Range(part) -> pool] :
        /\ \A i \in Range(part) : roster[i].adj => SeatAdjustable(f[i])
        /\ \A i, j \in Range(part) :
               (i # j /\ f[i] = f[j]) => ~Overlap(roster[i], roster[j])

\* pool {A(adjustable)}, P1 10:00-11:00 adjustable, P2 09:00-10:00 not
\* adjustable: both fit on A, one after the other
LateAdjustableEarlyOther ==
    /\ pool = {Seat13}
    /\ Len(roster) = 2
    /\ roster[1].adj /\ roster[1].begin = 600 /\ roster[1].end = 660
    /\ ~roster[2].adj /\ roster[2].begin = 540 /\ roster[2].end = 600

LateAdjustableBlocks ==
    (pc = "returned" /\ LateAdjustableEarlyOther) =>
        /\ PerfectAssignmentExists
        /\ placed = <<[row |-> 1, seat |-> Seat13]>>
        /\ left = <<2>>

\* C16: no step of a call moves or undoes a placement or takes a person back
\* from the left list; and the call is not optimal: for the pool {A} with A
\* adjustable, P1 10:00-11:00 requiring an adjustable seat and P2 09:00-10:00
\* not requiring one, both persons can be seated on A and the call leaves P2
\* unplaced.
GreedyNotOptimal == [][PlacementsStand]_vars /\ []LateAdjustableBlocks

GreedyNotOptimalWitness ==
    /\ pc = "returned"
    /\ WellFormed
    /\ PerfectAssignmentExists
    /\ left # <<>>
    /\ placed # <<>>

====
